---- MODULE Spec2Model ----
(***************************************************************************)
(* A model of the fetch-and-aggregate pipeline of the PTT commenter        *)
(* analyzer: src-tauri/src/main.rs (analyze_ptt_article) and               *)
(* src-tauri/src/scraper.rs (scrape_ptt_article, scrape_ptt_web).          *)
(*                                                                         *)
(* Strings the code parses or compares character by character are          *)
(* sequences of one-character strings.  The CJK literals of the source     *)
(* are written with ASCII stand-ins, each named after the literal.         *)
(* f64 values are exact rationals [neg, num, den]; for the counts and      *)
(* thresholds within the bounds below every f64 operation of the code is   *)
(* exact or keeps the order of the exact values.                           *)
(***************************************************************************)
EXTENDS Integers, Sequences, FiniteSets, TLC

(* ------------------------------ bounds --------------------------------- *)

\* commenters of an article in the specification Spec
MaxUsers == 2
\* commenters beyond CONCURRENT_LIMIT in the specification SpecGate
MaxExtra == 1
\* comment entries of an article page in the specification SpecExtract
MaxEntries == 2

(* -------------------------- program constants -------------------------- *)

\* main.rs:16  const CONCURRENT_LIMIT: usize = 10;
CONCURRENT_LIMIT == 10
\* main.rs:214  (value_to_compare - threshold).abs() < 1e-9, as 1 / 1e-9
EPSILON_INVERSE == 1000000000

\* main.rs:163 and config.rs:26, the literal of "article comment count"
SORT_BY_ARTICLE_COMMENTS == <<"#", "a">>
\* main.rs:167, the literal of "lifetime total comment count"
SORT_BY_TOTAL_COMMENTS == <<"#", "t">>

(* ------------------------------ strings -------------------------------- *)

\* char::is_whitespace on the characters of the model
IsWhitespace(c) == c = " "

Digits == {"0", "1", "2", "3", "4", "5", "6", "7", "8", "9"}

DigitValue(c) ==
    CASE c = "0" -> 0 [] c = "1" -> 1 [] c = "2" -> 2 [] c = "3" -> 3
      [] c = "4" -> 4 [] c = "5" -> 5 [] c = "6" -> 6 [] c = "7" -> 7
      [] c = "8" -> 8 [] c = "9" -> 9

\* str::trim
RECURSIVE TrimStart(_)
TrimStart(s) ==
    IF s # <<>> /\ IsWhitespace(Head(s)) THEN TrimStart(Tail(s)) ELSE s

RECURSIVE TrimEnd(_)
TrimEnd(s) ==
    IF s # <<>> /\ IsWhitespace(s[Len(s)])
    THEN TrimEnd(SubSeq(s, 1, Len(s) - 1))
    ELSE s

Trim(s) == TrimEnd(TrimStart(s))

\* str::ends_with(char)
EndsWith(s, c) == s # <<>> /\ s[Len(s)] = c

\* str::trim_end_matches(char): every trailing occurrence is removed
RECURSIVE TrimEndMatches(_, _)
TrimEndMatches(s, c) ==
    IF EndsWith(s, c) THEN TrimEndMatches(SubSeq(s, 1, Len(s) - 1), c) ELSE s

\* str::split(char): always at least one part; empty parts are kept
RECURSIVE SplitFrom(_, _, _, _)
SplitFrom(s, c, i, cur) ==
    IF i > Len(s) THEN <<cur>>
    ELSE IF s[i] = c THEN <<cur>> \o SplitFrom(s, c, i + 1, <<>>)
    ELSE SplitFrom(s, c, i + 1, Append(cur, s[i]))

Split(s, c) == SplitFrom(s, c, 1, <<>>)

\* str::contains(&str)
Contains(s, k) ==
    \E i \in 1..(Len(s) - Len(k) + 1) : SubSeq(s, i, i + Len(k) - 1) = k

\* str::contains(char)
ContainsChar(s, c) == \E i \in 1..Len(s) : s[i] = c

RECURSIVE Pow10(_)
Pow10(n) == IF n = 0 THEN 1 ELSE 10 * Pow10(n - 1)

RECURSIVE DigitsValue(_)
DigitsValue(s) ==
    IF s = <<>> THEN 0
    ELSE 10 * DigitsValue(SubSeq(s, 1, Len(s) - 1)) + DigitValue(s[Len(s)])

\* str::parse::<f64>() on the strings of the model (sign, digits, one
\* optional point; at least one digit; no surrounding whitespace).  The
\* exponent and the inf / nan spellings use letters outside the model's
\* alphabet.
ParseF64(s) ==
    LET signed == s # <<>> /\ s[1] \in {"+", "-"}
        body == IF signed THEN Tail(s) ELSE s
        points == {i \in 1..Len(body) : body[i] = "."}
        digs == SelectSeq(body, LAMBDA c : c \in Digits)
        wellFormed == /\ \A i \in 1..Len(body) : body[i] \in Digits \cup {"."}
                      /\ Cardinality(points) <= 1
                      /\ digs # <<>>
        frac == IF points = {} THEN 0
                ELSE Len(body) - (CHOOSE i \in points : TRUE)
    IN  IF wellFormed
        THEN [ok |-> TRUE, neg |-> (signed /\ s[1] = "-"),
              num |-> DigitsValue(digs), den |-> Pow10(frac)]
        ELSE [ok |-> FALSE, neg |-> FALSE, num |-> 0, den |-> 1]

(* ------------------------------ maps ----------------------------------- *)

\* HashMap::new()
EmptyMap == <<>>

\* *map.get(key).unwrap_or(&0)
GetOrZero(map, key) == IF key \in DOMAIN map THEN map[key] ELSE 0

\* HashMap::insert: a later value for the same key replaces the earlier
Insert(map, key, value) == (key :> value) @@ map

(* --------------------------- scraper.rs -------------------------------- *)

\* Option
None == [some |-> FALSE, data |-> <<>>]
Some(d) == [some |-> TRUE, data |-> d]

\* Result
Ok(v) == [ok |-> TRUE, value |-> v, error |-> "none"]
Err(e) == [ok |-> FALSE, value |-> <<>>, error |-> e]

\* scraper.rs:172-200: one (name, count) pair for every box with an anchor,
\* a non-empty trimmed name, a count span and a count that parses as u32;
\* the pairs are collected into a HashMap in document order
RECURSIVE CollectBoards(_, _, _)
CollectBoards(boxes, i, acc) ==
    IF i > Len(boxes) THEN acc
    ELSE LET box == boxes[i]
             name == Trim(box.name)
         IN  IF box.anchor /\ name # <<>> /\ box.span /\ box.count_ok
             THEN CollectBoards(boxes, i + 1, Insert(acc, name, box.count))
             ELSE CollectBoards(boxes, i + 1, acc)

\* scraper.rs:129-207.  page is what pttweb.cc answers for the user:
\* transport_ok (the GET and the body read succeed), no_author (the title
\* holds the "no such author" phrase), headline ("missing", "no_match" or
\* "ok" for div.headline against TOTAL_COMMENTS_RE), total, boxes.
\* The function takes the user id alone: the board list its caller passes
\* (main.rs:127) is not among its parameters.
scrape_ptt_web(user_id, page) ==
    IF ~page.transport_ok THEN Err("Request")
    ELSE IF page.no_author THEN Err("PttWebUserNotFound")
    ELSE IF page.headline # "ok" THEN Err("PttWebParse")
    ELSE Ok([board_comments |-> CollectBoards(page.boxes, 1, EmptyMap),
             total_comments |-> page.total])

\* scraper.rs:101, 103, 105: the characters looked for in the tag text
TAG_PUSH == "P"
TAG_HATE == "H"
TAG_ARROW == "A"

\* scraper.rs:70
BOARD_UNKNOWN == <<"U", "n", "k", "n", "o", "w", "n">>

\* scraper.rs:101-109
CommentType(tag_text) ==
    IF ContainsChar(tag_text, TAG_PUSH) THEN "push"
    ELSE IF ContainsChar(tag_text, TAG_HATE) THEN "hate"
    ELSE IF ContainsChar(tag_text, TAG_ARROW) THEN "arrow"
    ELSE "unknown"

\* scraper.rs:97-99: trim_start_matches(':' or whitespace)
RECURSIVE CleanContent(_)
CleanContent(content_raw) ==
    IF content_raw # <<>> /\ (Head(content_raw) = ":" \/ IsWhitespace(Head(content_raw)))
    THEN CleanContent(Tail(content_raw))
    ELSE content_raw

\* scraper.rs:112
TypeMatch(filter_type, comment_type) ==
    filter_type = "all" \/ filter_type = comment_type

\* scraper.rs:113
KeywordMatch(keyword, content) ==
    IF keyword.some THEN Contains(content, keyword.data) ELSE TRUE

\* scraper.rs:74-118: the loop over the .push elements.  An element is
\* [tag, user, content]: the text of its first .push-tag, .push-userid and
\* .push-content child, the empty string for a missing child.
RECURSIVE CountComments(_, _, _, _, _)
CountComments(pushes, i, filter_type, keyword, user_comment_counts) ==
    IF i > Len(pushes) THEN user_comment_counts
    ELSE LET element == pushes[i]
             tag_text == element.tag
             user == Trim(element.user)
             content_raw == element.content
         IN  IF user = <<>> \/ content_raw = <<>>
             THEN CountComments(pushes, i + 1, filter_type, keyword,
                                user_comment_counts)
             ELSE IF /\ TypeMatch(filter_type, CommentType(tag_text))
                     /\ KeywordMatch(keyword, CleanContent(content_raw))
             THEN CountComments(pushes, i + 1, filter_type, keyword,
                                Insert(user_comment_counts, user,
                                       GetOrZero(user_comment_counts, user) + 1))
             ELSE CountComments(pushes, i + 1, filter_type, keyword,
                                user_comment_counts)

\* a mutant of scrape_ptt_article: a failed request is read as an empty page
scrape_ptt_article_swallowing(page, filter_type, keyword) ==
    Ok([user_comment_counts |->
            CountComments(page.pushes, 1, filter_type, keyword, EmptyMap),
        board |-> IF page.board.some THEN Trim(page.board.data)
                  ELSE BOARD_UNKNOWN])

\* scraper.rs:25-125.  page is what the article URL answers: transport_ok,
\* board (the first right-aligned meta value, if any), pushes.  The title
\* (scraper.rs:59-64) is carried through to the metadata only and is left
\* out.
scrape_ptt_article(page, filter_type, keyword) ==
    IF ~page.transport_ok THEN Err("Request")
    ELSE Ok([user_comment_counts |->
                 CountComments(page.pushes, 1, filter_type, keyword, EmptyMap),
             board |-> IF page.board.some THEN Trim(page.board.data)
                       ELSE BOARD_UNKNOWN])

(* ----------------------------- main.rs --------------------------------- *)

\* main.rs:127-134: every error of the profile fetch becomes None
MatchProfile(user, result) ==
    IF result.ok THEN <<user, Some(result.value)>> ELSE <<user, None>>

\* a mutant of UserReport: a failed fetch zeroes the whole record
UserReportZeroedOnFailure(pair, user_comment_counts) ==
    LET user == pair[1]
        opt == pair[2]
    IN  [user |-> user,
         article_comments |->
             IF opt.some THEN GetOrZero(user_comment_counts, user) ELSE 0,
         board_comments |-> IF opt.some THEN opt.data.board_comments ELSE EmptyMap,
         total_comments |-> IF opt.some THEN opt.data.total_comments ELSE 0]

\* main.rs:143-154
UserReport(pair, user_comment_counts) ==
    LET user == pair[1]
        opt == pair[2]
    IN  [user |-> user,
         article_comments |-> GetOrZero(user_comment_counts, user),
         board_comments |-> IF opt.some THEN opt.data.board_comments ELSE EmptyMap,
         total_comments |-> IF opt.some THEN opt.data.total_comments ELSE 0]

\* main.rs:141-155
ReportData(results, user_comment_counts) ==
    [i \in 1..Len(results) |-> UserReport(results[i], user_comment_counts)]

\* main.rs:162-175
SortValue(r, sort_by) ==
    IF sort_by = SORT_BY_ARTICLE_COMMENTS THEN r.article_comments
    ELSE IF sort_by = SORT_BY_TOTAL_COMMENTS THEN r.total_comments
    ELSE GetOrZero(r.board_comments, sort_by)

\* main.rs:177-181: the comparator answers Less
ComparesLess(a, b, sorting) ==
    IF sorting.order = "desc"
    THEN SortValue(b, sorting.sort_by) < SortValue(a, sorting.sort_by)
    ELSE SortValue(a, sorting.sort_by) < SortValue(b, sorting.sort_by)

\* main.rs:158: slice::sort_by is a stable sort
RECURSIVE SortBy(_, _)
SortBy(seq, sorting) ==
    IF seq = <<>> THEN <<>>
    ELSE LET init == SortBy(SubSeq(seq, 1, Len(seq) - 1), sorting)
             x == seq[Len(seq)]
             after == {i \in 1..Len(init) : ComparesLess(x, init[i], sorting)}
             k == IF after = {} THEN Len(init) + 1
                  ELSE CHOOSE i \in after : \A j \in after : i <= j
         IN  SubSeq(init, 1, k - 1) \o <<x>> \o SubSeq(init, k, Len(init))

\* main.rs:209-216, on exact rationals: value = vnum / vden, threshold = th
OperatorHolds(operator, vnum, vden, th) ==
    LET lhs == vnum * th.den
        rhs == (IF th.neg THEN 0 - th.num ELSE th.num) * vden
        diff == IF lhs >= rhs THEN lhs - rhs ELSE rhs - lhs
    IN  CASE operator = <<"<">> -> lhs < rhs
          [] operator = <<"<", "=">> -> lhs <= rhs
          [] operator = <<">">> -> lhs > rhs
          [] operator = <<">", "=">> -> lhs >= rhs
          [] operator = <<"=", "=">> ->
                \* diff / (vden * th.den) < 1 / EPSILON_INVERSE
                diff <= ((vden * th.den - 1) \div EPSILON_INVERSE)
          [] OTHER -> FALSE

\* main.rs:201-216
IsHighlighted(user, hl_board, operator, is_percentage, threshold) ==
    LET board_comments == GetOrZero(user.board_comments, hl_board)
        total_comments == user.total_comments
    IN  IF is_percentage /\ total_comments > 0
        THEN OperatorHolds(operator, board_comments * 100, total_comments, threshold)
        ELSE OperatorHolds(operator, board_comments, 1, threshold)

\* main.rs:199: threshold >= 0.0, threshold being -1.0 when the parse failed
ThresholdAccepted(parsed) == parsed.ok /\ (~parsed.neg \/ parsed.num = 0)

\* main.rs:185-226.  highlight_condition is None or Some(string).
Partition(report_data, highlight_condition) ==
    LET nothing == [highlighted_data |-> <<>>, normal_data |-> report_data]
    IN  IF ~highlight_condition.some \/ highlight_condition.data = <<>>
        THEN nothing
        ELSE LET parts == Split(highlight_condition.data, ",")
             IN  IF Len(parts) # 3 THEN nothing
                 ELSE LET hl_board == Trim(parts[1])
                          operator == Trim(parts[2])
                          value_str == Trim(parts[3])
                          is_percentage == EndsWith(value_str, "%")
                          threshold == ParseF64(TrimEndMatches(value_str, "%"))
                          Pred(u) == IsHighlighted(u, hl_board, operator,
                                                   is_percentage, threshold)
                      IN  IF ~ThresholdAccepted(threshold) THEN nothing
                          ELSE [highlighted_data |-> SelectSeq(report_data, Pred),
                                normal_data |->
                                    SelectSeq(report_data, LAMBDA u : ~Pred(u))]

\* main.rs:141-241: steps 3 and 4 on the collected results
BuildReport(results, user_comment_counts, payload) ==
    Partition(SortBy(ReportData(results, user_comment_counts),
                     payload.config.sorting),
              payload.highlight_condition)

\* main.rs:106-109
TargetBoards(boards, board) ==
    IF \E i \in 1..Len(boards) : boards[i] = board
    THEN boards
    ELSE Append(boards, board)

(* ------------------------------- state --------------------------------- *)

VARIABLES
    \* the environment: what the article URL answers; what pttweb.cc answers
    \* for each user; the rank in which the answers of pttweb.cc arrive
    \* (equal ranks: either may arrive first); the order in which the
    \* HashMap of the article's users iterates; whether the sink may refuse
    \* an event
    article, site, latency, key_order, sink_flaky,
    \* the argument of the command (main.rs:63-69)
    payload,
    \* the position in analyze_ptt_article: "start", "enrich", "done"
    \* (Ok returned) or "failed" (Err returned)
    pc,
    \* main.rs:86, 106, 112
    article_data, target_boards, users_to_scrape,
    \* the stream of main.rs:115-137: how many users buffer_unordered has
    \* pulled, and each user's future: "queued", "pushed" (in the buffer, not
    \* yet polled), "emitted", "fetching", "done"
    pulled, task,
    \* what each user's future has done so far, in order
    events,
    \* the SCRAPE_PROGRESS events the sink has received
    sink,
    \* main.rs:139
    ptt_web_results,
    \* the value the command returns
    response

env == <<article, site, latency, key_order, sink_flaky, payload>>

vars == <<env, pc, article_data, target_boards, users_to_scrape, pulled, task,
          events, sink, ptt_web_results, response>>

(* ---------------------------- environment ------------------------------ *)

UserLetters == <<"a", "b", "c", "d", "e", "f", "g", "h", "i", "j", "k", "l", "m", "n">>
UserName(i) == <<UserLetters[i]>>
UserNames(n) == {UserName(i) : i \in 1..n}

BoardB == <<"B">>
BoardG == <<"G">>
BoardX == <<"X">>

Push(tag, user, content) == [tag |-> tag, user |-> user, content |-> content]

PushBy(i) == Push(<<TAG_PUSH, " ">>, UserName(i), <<":", " ", "x">>)

ArticlePage(pushes) ==
    [transport_ok |-> TRUE, board |-> Some(BoardG), pushes |-> pushes]

\* an article page on which user i has left counts[i] comments
PageWithCounts(counts) ==
    LET n == Len(counts)
        first == [i \in 1..n |-> PushBy(i)]
        again == SelectSeq(first, LAMBDA e :
                     \E i \in 1..n : e.user = UserName(i) /\ counts[i] > 1)
    IN  ArticlePage(first \o again)

UnreachablePage == [transport_ok |-> FALSE, board |-> None, pushes |-> <<>>]

CountValues == {1, 2}

ArticlePages(n) ==
    IF n = 0 THEN {UnreachablePage, ArticlePage(<<>>)}
    ELSE {PageWithCounts(c) : c \in [1..n -> CountValues]}

Box(name, count) ==
    [anchor |-> TRUE, name |-> name, span |-> TRUE, count_ok |-> TRUE, count |-> count]

ProfileOf(total, boxes) ==
    [transport_ok |-> TRUE, no_author |-> FALSE, headline |-> "ok",
     total |-> total, boxes |-> boxes]

ProfileUnreachable ==
    [transport_ok |-> FALSE, no_author |-> FALSE, headline |-> "missing",
     total |-> 0, boxes |-> <<>>]

ProfileNoAuthor ==
    [transport_ok |-> TRUE, no_author |-> TRUE, headline |-> "missing",
     total |-> 0, boxes |-> <<>>]

ProfileNoHeadline ==
    [transport_ok |-> TRUE, no_author |-> FALSE, headline |-> "no_match",
     total |-> 0, boxes |-> <<Box(BoardB, 1)>>]

ProfileTypical == ProfileOf(2, <<Box(BoardB, 1), Box(BoardX, 1)>>)

ProfilePages ==
    {ProfileUnreachable, ProfileNoAuthor, ProfileNoHeadline, ProfileTypical}

Sorting(sort_by, order) == [sort_by |-> sort_by, order |-> order]

PayloadOf(filter_type, keyword, boards, sorting, highlight_condition) ==
    [filter_type |-> filter_type, keyword |-> keyword,
     highlight_condition |-> highlight_condition,
     config |-> [boards |-> boards, sorting |-> sorting]]

\* config.rs:25-28
DefaultSorting == Sorting(SORT_BY_ARTICLE_COMMENTS, "desc")

Payloads ==
    {PayloadOf("all", None, <<BoardB>>, DefaultSorting, None),
     PayloadOf("all", None, <<BoardB, BoardG>>,
               Sorting(SORT_BY_TOTAL_COMMENTS, "asc"),
               Some(<<"B", ",", ">", ",", "0">>)),
     PayloadOf("push", None, <<>>, Sorting(BoardB, "desc"),
               Some(<<"B", ",", ">", "=", ",", "5", "0", "%">>))}

KeyOrders(n) ==
    {order \in [1..n -> UserNames(n)] :
        \A i, j \in 1..n : i # j => order[i] # order[j]}

NoLatency == [u \in UserNames(Len(UserLetters)) |-> 0]

(* ------------------------------- Init ---------------------------------- *)

Idle ==
    /\ pc = "start"
    /\ article_data = [user_comment_counts |-> EmptyMap, board |-> <<>>]
    /\ target_boards = <<>>
    /\ users_to_scrape = <<>>
    /\ pulled = 0
    /\ task = <<>>
    /\ events = <<>>
    /\ sink = <<>>
    /\ ptt_web_results = <<>>
    /\ response = [status |-> "none"]

Init ==
    /\ \E n \in 0..MaxUsers :
          /\ article \in ArticlePages(n)
          /\ site \in [UserNames(n) -> ProfilePages]
          /\ key_order \in KeyOrders(n)
    /\ latency = NoLatency
    /\ sink_flaky = TRUE
    /\ payload \in Payloads
    /\ Idle

(* ------------------------------ actions -------------------------------- *)

\* main.rs:112: HashMap::keys(), the keys in the order the map iterates
Keys(map) == SelectSeq(key_order, LAMBDA u : u \in DOMAIN map)

\* main.rs:86: the article fetch fails and `?` returns the error
ArticleFetchFails ==
    LET result == scrape_ptt_article(article, payload.filter_type, payload.keyword)
    IN  /\ pc = "start"
        /\ ~result.ok
        /\ pc' = "failed"
        /\ response' = [status |-> "Err", error |-> result.error]
        /\ UNCHANGED <<env, article_data, target_boards, users_to_scrape,
                       pulled, task, events, sink, ptt_web_results>>

\* main.rs:86-102: nobody commented
ArticleEmpty ==
    LET result == scrape_ptt_article(article, payload.filter_type, payload.keyword)
    IN  /\ pc = "start"
        /\ result.ok
        /\ result.value.user_comment_counts = EmptyMap
        /\ article_data' = result.value
        /\ pc' = "done"
        /\ response' = [status |-> "Ok", highlighted_data |-> <<>>,
                        normal_data |-> <<>>]
        /\ UNCHANGED <<env, target_boards, users_to_scrape, pulled, task,
                       events, sink, ptt_web_results>>

\* main.rs:86-115
ArticleFetched ==
    LET result == scrape_ptt_article(article, payload.filter_type, payload.keyword)
    IN  /\ pc = "start"
        /\ result.ok
        /\ result.value.user_comment_counts # EmptyMap
        /\ article_data' = result.value
        /\ target_boards' = TargetBoards(payload.config.boards, result.value.board)
        /\ users_to_scrape' = Keys(result.value.user_comment_counts)
        /\ task' = [u \in DOMAIN result.value.user_comment_counts |-> "queued"]
        /\ events' = [u \in DOMAIN result.value.user_comment_counts |-> <<>>]
        /\ pc' = "enrich"
        /\ UNCHANGED <<env, pulled, sink, ptt_web_results, response>>

\* main.rs:113
total_users == Len(users_to_scrape)

InProgress == {u \in DOMAIN task : task[u] \in {"pushed", "emitted", "fetching"}}

\* a mutant of BufferHasRoom: buffer_unordered without its limit
BufferHasRoomUnbounded == TRUE

\* main.rs:137: buffer_unordered(CONCURRENT_LIMIT) pulls a future from the
\* stream only while fewer than the limit are in its buffer
BufferHasRoom == Cardinality(InProgress) < CONCURRENT_LIMIT

\* main.rs:115-137: buffer_unordered pulls the next user's future
Pull ==
    /\ pc = "enrich"
    /\ pulled < total_users
    /\ BufferHasRoom
    /\ pulled' = pulled + 1
    /\ task' = [task EXCEPT ![users_to_scrape[pulled + 1]] = "pushed"]
    /\ UNCHANGED <<env, pc, article_data, target_boards, users_to_scrape,
                   events, sink, ptt_web_results, response>>

\* a mutant of ProgressPayload: current is the 0-based index
ProgressPayloadZeroBased(i) ==
    [current |-> i, total |-> total_users, user_id |-> users_to_scrape[i + 1]]

\* main.rs:120-124, i being the index of enumerate()
ProgressPayload(i) ==
    [current |-> i + 1, total |-> total_users, user_id |-> users_to_scrape[i + 1]]

\* main.rs:120-125: the first poll of the future of the user at position
\* pos, the futures being polled in the order they were pushed; the result
\* of emit is dropped
Emit(pos, delivered) ==
    LET user == users_to_scrape[pos]
    IN  /\ pc = "enrich"
        /\ pos <= pulled
        /\ task[user] = "pushed"
        /\ \A j \in 1..(pos - 1) :
              task[users_to_scrape[j]] \notin {"pushed", "emitted"}
        /\ delivered \/ sink_flaky
        /\ sink' = IF delivered THEN Append(sink, ProgressPayload(pos - 1)) ELSE sink
        /\ events' = [events EXCEPT ![user] =
                         Append(@, [kind |-> "emit",
                                    payload |-> ProgressPayload(pos - 1),
                                    delivered |-> delivered])]
        /\ task' = [task EXCEPT ![user] = "emitted"]
        /\ UNCHANGED <<env, pc, article_data, target_boards, users_to_scrape,
                       pulled, ptt_web_results, response>>

\* main.rs:127, scraper.rs:131-134: the request to pttweb.cc is sent
IssueFetch(user) ==
    /\ pc = "enrich"
    /\ task[user] = "emitted"
    /\ events' = [events EXCEPT ![user] = Append(@, [kind |-> "fetch"])]
    /\ task' = [task EXCEPT ![user] = "fetching"]
    /\ UNCHANGED <<env, pc, article_data, target_boards, users_to_scrape,
                   pulled, sink, ptt_web_results, response>>

\* a mutant of Complete: the error of a profile fetch is returned with `?`
CompleteOrAbort(user) ==
    LET fetched == scrape_ptt_web(user, site[user])
    IN  /\ pc = "enrich"
        /\ task[user] = "fetching"
        /\ \A other \in DOMAIN task :
              task[other] = "fetching" => latency[user] <= latency[other]
        /\ events' = [events EXCEPT ![user] = Append(@, [kind |-> "result"])]
        /\ task' = [task EXCEPT ![user] = "done"]
        /\ IF fetched.ok
           THEN /\ ptt_web_results' =
                      Append(ptt_web_results, MatchProfile(user, fetched))
                /\ UNCHANGED <<pc, response>>
           ELSE /\ pc' = "failed"
                /\ response' = [status |-> "Err", error |-> fetched.error]
                /\ UNCHANGED ptt_web_results
        /\ UNCHANGED <<env, article_data, target_boards, users_to_scrape,
                       pulled, sink>>

\* main.rs:127-139, scraper.rs:134-207: the answer arrives, the future
\* finishes and collect() appends its value
Complete(user) ==
    /\ pc = "enrich"
    /\ task[user] = "fetching"
    /\ \A other \in DOMAIN task :
          task[other] = "fetching" => latency[user] <= latency[other]
    /\ ptt_web_results' =
          Append(ptt_web_results,
                 MatchProfile(user, scrape_ptt_web(user, site[user])))
    /\ events' = [events EXCEPT ![user] = Append(@, [kind |-> "result"])]
    /\ task' = [task EXCEPT ![user] = "done"]
    /\ UNCHANGED <<env, pc, article_data, target_boards, users_to_scrape,
                   pulled, sink, response>>

\* main.rs:139-241: the stream is exhausted; the report is built, sorted,
\* partitioned and returned
Finish ==
    /\ pc = "enrich"
    /\ pulled = total_users
    /\ \A u \in DOMAIN task : task[u] = "done"
    /\ response' =
          [status |-> "Ok"] @@
          BuildReport(ptt_web_results, article_data.user_comment_counts, payload)
    /\ pc' = "done"
    /\ UNCHANGED <<env, article_data, target_boards, users_to_scrape, pulled,
                   task, events, sink, ptt_web_results>>

Next ==
    \/ ArticleFetchFails
    \/ ArticleEmpty
    \/ ArticleFetched
    \/ Pull
    \/ \E pos \in 1..total_users : \E delivered \in BOOLEAN : Emit(pos, delivered)
    \/ \E user \in DOMAIN task : IssueFetch(user)
    \/ \E user \in DOMAIN task : Complete(user)
    \/ Finish

Spec == Init /\ [][Next]_vars

(* ------------------- more commenters than the limit -------------------- *)

GateSizes == (CONCURRENT_LIMIT + 1)..(CONCURRENT_LIMIT + MaxExtra)

LetterIndex(u) == CHOOSE i \in 1..Len(UserLetters) : UserName(i) = u

LatencyBy(Rank(_)) ==
    [u \in UserNames(Len(UserLetters)) |-> Rank(LetterIndex(u))]

\* answers arrive in the order of the names; or in that order with those
\* of b and c arriving in either order; or in that order with that of a
\* arriving last
GateLatencies ==
    {LatencyBy(LAMBDA i : i),
     LatencyBy(LAMBDA i : IF i = 3 THEN 2 ELSE i),
     LatencyBy(LAMBDA i : IF i = 1 THEN Len(UserLetters) + 1 ELSE i)}

InitGate ==
    /\ \E n \in GateSizes \cup {0} :
          /\ article \in IF n = 0 THEN ArticlePages(0)
                         ELSE {PageWithCounts([i \in 1..n |-> 1])}
          /\ site \in {[u \in UserNames(n) |-> page] :
                          page \in {ProfileTypical, ProfileNoAuthor}}
          /\ key_order \in {[i \in 1..n |-> UserName(i)],
                            [i \in 1..n |-> UserName(IF i <= 2 THEN 3 - i ELSE i)]}
    /\ latency \in GateLatencies
    /\ sink_flaky = FALSE
    /\ payload = PayloadOf("all", None, <<BoardB>>, DefaultSorting, None)
    /\ Idle

SpecGate == InitGate /\ [][Next]_vars

(* --------------------------- article pages ----------------------------- *)

\* comment entries: the three tags, a missing tag, a tag text holding two
\* tag characters; a padded, a blank and a missing user id; content with
\* and without the leading ": ", content of a colon alone, missing content
ExtractEntries ==
    {Push(<<TAG_PUSH, " ">>, <<"a">>, <<":", " ", "x">>),
     Push(<<TAG_HATE, " ">>, <<"b", " ">>, <<"y">>),
     Push(<<TAG_ARROW, " ">>, <<"a">>, <<":", " ", "x", "y">>),
     Push(<<>>, <<"b">>, <<":">>),
     Push(<<TAG_HATE, TAG_PUSH>>, <<"a">>, <<":", " ", "y">>),
     Push(<<TAG_PUSH, " ">>, <<>>, <<":", " ", "x">>),
     Push(<<TAG_PUSH, " ">>, <<" ">>, <<"x">>),
     Push(<<TAG_PUSH, " ">>, <<"b">>, <<>>)}

RECURSIVE SeqsUpTo(_, _)
SeqsUpTo(S, n) ==
    IF n = 0 THEN {<<>>}
    ELSE SeqsUpTo(S, n - 1) \cup
         {Append(q, x) : q \in {r \in SeqsUpTo(S, n - 1) : Len(r) = n - 1}, x \in S}

\* the values of filter_type: the five the front end knows and the empty
\* string
FilterValues == {"all", "push", "hate", "arrow", "unknown", ""}

KeywordValues ==
    {None, Some(<<>>), Some(<<"x">>), Some(<<":">>), Some(<<"x", "y">>)}

InitExtract ==
    /\ article \in {ArticlePage(pushes) : pushes \in SeqsUpTo(ExtractEntries, MaxEntries)}
                   \cup {UnreachablePage}
    /\ site = [u \in UserNames(2) |-> ProfileNoAuthor]
    /\ key_order = [i \in 1..2 |-> UserName(i)]
    /\ latency = NoLatency
    /\ sink_flaky = FALSE
    /\ payload \in {PayloadOf(filter_type, keyword, <<BoardB>>, DefaultSorting, None) :
                       filter_type \in FilterValues, keyword \in KeywordValues}
    /\ Idle

NextExtract == ArticleFetchFails \/ ArticleEmpty \/ ArticleFetched

SpecExtract == InitExtract /\ [][NextExtract]_vars

(* -------------------------- highlight conditions ----------------------- *)

Join3(a, b, c) == a \o <<",">> \o b \o <<",">> \o c

ConditionOperators ==
    {<<"<">>, <<"<", "=">>, <<">">>, <<">", "=">>, <<"=", "=">>, <<"=">>}

ConditionValues ==
    {<<"0">>, <<"1">>, <<"2">>, <<"5", "0", "%">>, <<"1", "0", "0", "%">>,
     <<"2", ".", "5">>, <<"-", "1">>, <<"-", "5", "%">>, <<"x">>, <<>>, <<"%">>}

HighlightConditions ==
    {Some(Join3(BoardB, operator, value)) :
        operator \in ConditionOperators, value \in ConditionValues}
    \cup {None, Some(<<>>),
          Some(BoardB \o <<",", ">">>),
          Some(Join3(BoardB, <<">">>, <<"1", ",", "2">>)),
          Some(Join3(<<" ", "B", " ">>, <<" ", ">", "=", " ">>, <<" ", "5", "0", "%", " ">>)),
          Some(Join3(BoardX, <<">">>, <<"0">>))}

ReportProfiles ==
    {ProfileNoAuthor,
     ProfileOf(0, <<Box(BoardB, 1)>>),
     ProfileOf(2, <<>>),
     ProfileOf(2, <<Box(BoardB, 1)>>),
     ProfileOf(2, <<Box(BoardB, 2), Box(BoardX, 1)>>)}

InitReport ==
    /\ \E n \in 0..MaxUsers :
          /\ article \in IF n = 0 THEN ArticlePages(0)
                         ELSE {PageWithCounts([i \in 1..n |-> 1])}
          /\ site \in [UserNames(n) -> ReportProfiles]
          /\ key_order = [i \in 1..n |-> UserName(i)]
    /\ latency = LatencyBy(LAMBDA i : i)
    /\ sink_flaky = FALSE
    /\ payload \in {PayloadOf("all", None, <<BoardB>>, DefaultSorting, condition) :
                       condition \in HighlightConditions}
    /\ Idle

SpecReport == InitReport /\ [][Next]_vars

(* ------------------------------ claims --------------------------------- *)

commentCounts == article_data.user_comment_counts

Fetching == {u \in DOMAIN task : task[u] = "fetching"}

Kinds(u) == [j \in 1..Len(events[u]) |-> events[u][j].kind]

Returned == pc = "done" /\ response.status = "Ok"

ReportOf(resp) == resp.highlighted_data \o resp.normal_data

\* C1: at most CONCURRENT_LIMIT profile fetches are started and not yet
\* completed, whatever the number of commenters; a commenter that waits
\* for room is still queued, and once the command has returned every
\* commenter has been fetched and has its result collected.
C1_GateHolds ==
    /\ Cardinality(Fetching) <= CONCURRENT_LIMIT
    /\ \A u \in DOMAIN task :
          pc = "enrich" /\ ~(\E j \in 1..pulled : users_to_scrape[j] = u)
              => task[u] = "queued"
    /\ Returned =>
          \A u \in DOMAIN commentCounts :
              /\ Kinds(u) = <<"emit", "fetch", "result">>
              /\ \E j \in 1..Len(ptt_web_results) : ptt_web_results[j][1] = u

\* C1 witness: more commenters than the limit, the limit reached, and a
\* commenter waiting.
C1_Witness ==
    /\ total_users > CONCURRENT_LIMIT
    /\ Cardinality(Fetching) = CONCURRENT_LIMIT
    /\ \E u \in DOMAIN task : task[u] = "queued"

\* C2: in a returned report the users of highlightedData and normalData
\* together are exactly the keys of commentCounts, each exactly once, and
\* each record's articleComments is the user's count.
C2_ReportCoversEveryUserOnce ==
    Returned =>
        LET all == ReportOf(response)
        IN  /\ \A j \in 1..Len(all) : all[j].user \in DOMAIN commentCounts
            /\ \A u \in DOMAIN commentCounts :
                  /\ Cardinality({j \in 1..Len(all) : all[j].user = u}) = 1
                  /\ \A j \in 1..Len(all) :
                        all[j].user = u => all[j].article_comments = commentCounts[u]

\* C2 witness: a returned report of two users with different counts, one
\* highlighted and one not, collected in the reverse of the dispatch order.
C2_Witness ==
    /\ Returned
    /\ Len(response.highlighted_data) = 1
    /\ Len(response.normal_data) = 1
    /\ commentCounts[response.highlighted_data[1].user]
           # commentCounts[response.normal_data[1].user]
    /\ ptt_web_results[1][1] = users_to_scrape[2]

ProfileErrors == {"Request", "PttWebUserNotFound", "PttWebParse"}

\* C3: a failed profile fetch, whatever its error, never makes the command
\* fail or stop: the failed commenter's record has no board counts and a
\* total of 0, and every other record holds what that commenter's own
\* profile page gives.
C3_FailureIsContained ==
    /\ pc = "failed" => ~article.transport_ok
    /\ \A j \in 1..Len(ptt_web_results) :
          LET user == ptt_web_results[j][1]
          IN  /\ task[user] = "done"
              /\ ptt_web_results[j][2].some = scrape_ptt_web(user, site[user]).ok
    /\ Returned =>
          LET all == ReportOf(response)
          IN  \A j \in 1..Len(all) :
                  LET fetched == scrape_ptt_web(all[j].user, site[all[j].user])
                  IN  IF fetched.ok
                      THEN /\ all[j].board_comments = fetched.value.board_comments
                           /\ all[j].total_comments = fetched.value.total_comments
                      ELSE /\ fetched.error \in ProfileErrors
                           /\ all[j].board_comments = EmptyMap
                           /\ all[j].total_comments = 0

\* C3 witness: a returned report with a commenter whose fetch failed and a
\* commenter whose fetch succeeded.
C3_Witness ==
    /\ Returned
    /\ \E u, v \in DOMAIN commentCounts :
          /\ ~scrape_ptt_web(u, site[u]).ok
          /\ scrape_ptt_web(v, site[v]).ok
          /\ \E j \in 1..Len(ReportOf(response)) :
                /\ ReportOf(response)[j].user = v
                /\ ReportOf(response)[j].total_comments > 0

Emits(u) == {j \in 1..Len(events[u]) : events[u][j].kind = "emit"}

Position(u) == CHOOSE j \in 1..total_users : users_to_scrape[j] = u

\* C4: each commenter's future emits one event, before it issues its fetch;
\* the event carries the user, the number of commenters and the 1-based
\* dispatch position; the sink receives no event twice; once the command
\* has returned every commenter has emitted once (the positions are 1..N)
\* and has fetched, delivered or not.
C4_ProgressBeforeFetch ==
    /\ \A u \in DOMAIN events :
          /\ Cardinality(Emits(u)) <= 1
          /\ events[u] # <<>> => events[u][1].kind = "emit"
          /\ \A j \in Emits(u) :
                events[u][j].payload =
                    [current |-> Position(u), total |-> Cardinality(DOMAIN commentCounts),
                     user_id |-> u]
    /\ \A j \in 1..Len(sink) :
          /\ sink[j].user_id = users_to_scrape[sink[j].current]
          /\ \A k \in 1..Len(sink) : sink[j].current = sink[k].current => j = k
    /\ Returned =>
          /\ \A u \in DOMAIN commentCounts : Kinds(u) = <<"emit", "fetch", "result">>
          /\ {events[u][1].payload.current : u \in DOMAIN commentCounts}
                 = 1..Cardinality(DOMAIN commentCounts)

\* C4 witness: a commenter whose event the sink refused has issued its
\* fetch, at a dispatch position other than the first.
C4_Witness ==
    \E u \in DOMAIN events :
        /\ Len(events[u]) >= 2
        /\ ~events[u][1].delivered
        /\ events[u][2].kind = "fetch"
        /\ events[u][1].payload.current = 2

\* C5: before the article fetch has succeeded nothing of the enrichment has
\* happened; a failed article fetch ends the command with an error, no
\* event, no profile fetch and no report, and it is the only way to fail.
C5_ArticleFirst ==
    /\ pc \in {"start", "failed"} =>
          /\ sink = <<>>
          /\ ptt_web_results = <<>>
          /\ \A u \in DOMAIN events : events[u] = <<>>
    /\ pc = "start" => response.status = "none"
    /\ pc = "failed" => response = [status |-> "Err", error |-> "Request"]
    /\ ~article.transport_ok => pc \in {"start", "failed"}
    /\ (sink # <<>> \/ \E u \in DOMAIN events : events[u] # <<>>) =>
          article.transport_ok /\ pc \in {"enrich", "done"}

\* C5 witness: the article fetch has failed.
C5_Witness == pc = "failed" /\ ~article.transport_ok

\* C8: no record of a returned report holds a board outside targetBoards.
C8_BoardsWithinTarget ==
    Returned =>
        \A j \in 1..Len(ReportOf(response)) :
            DOMAIN ReportOf(response)[j].board_comments
                \subseteq {target_boards[k] : k \in 1..Len(target_boards)}

\* the results as collect() holds them when the fetches complete in the
\* order they were dispatched
DispatchOrderResults ==
    [j \in 1..total_users |->
        MatchProfile(users_to_scrape[j],
                     scrape_ptt_web(users_to_scrape[j], site[users_to_scrape[j]]))]

\* C9: the returned report is the one the same article, payload and
\* profile pages give when the fetches complete in dispatch order, whatever
\* the order in which they did complete.
C9_ReportIndependentOfCompletionOrder ==
    Returned /\ commentCounts # EmptyMap =>
        response = [status |-> "Ok"] @@
                   BuildReport(DispatchOrderResults, commentCounts, payload)

\* C10: in every commenter's future the step before the fetch is a pacing
\* delay.
C10_DelayBeforeFetch ==
    \A u \in DOMAIN events :
        \A j \in 1..Len(events[u]) :
            events[u][j].kind = "fetch" =>
                j > 1 /\ events[u][j - 1].kind = "delay"

(* the claim's own reading of the extraction inputs *)

TypeNames == {"push", "hate", "arrow", "unknown"}

\* the comment types the filter argument names
ClaimedFilterTypes == {payload.filter_type} \cap TypeNames

ClaimedKeywords ==
    IF payload.keyword.some THEN <<payload.keyword.data>> ELSE <<>>

ClaimedType(entry) ==
    CASE \E j \in 1..Len(entry.tag) : entry.tag[j] = TAG_PUSH -> "push"
      [] OTHER ->
           CASE \E j \in 1..Len(entry.tag) : entry.tag[j] = TAG_HATE -> "hate"
             [] OTHER ->
                  CASE \E j \in 1..Len(entry.tag) : entry.tag[j] = TAG_ARROW -> "arrow"
                    [] OTHER -> "unknown"

ClaimedQualifies(entry) ==
    /\ Trim(entry.user) # <<>>
    /\ entry.content # <<>>
    /\ ClaimedFilterTypes = {} \/ ClaimedType(entry) \in ClaimedFilterTypes
    /\ \/ ~payload.keyword.some
       \/ ClaimedKeywords = <<>>
       \/ \E j \in 1..Len(ClaimedKeywords) :
             Contains(CleanContent(entry.content), ClaimedKeywords[j])

ClaimedEntries(u) ==
    {j \in 1..Len(article.pushes) :
        Trim(article.pushes[j].user) = u /\ ClaimedQualifies(article.pushes[j])}

ClaimedAuthors ==
    {Trim(article.pushes[j].user) : j \in {k \in 1..Len(article.pushes) :
                                              ClaimedQualifies(article.pushes[k])}}

\* C6: the extracted commentCounts has a key for exactly the authors of a
\* qualifying entry, with the number of that author's qualifying entries:
\* non-empty author and content, the type accepted by the filter (no type
\* named: every type), a keyword found in the cleaned content (no keyword:
\* every content).
C6_CountsAsClaimed ==
    pc \in {"enrich", "done"} =>
        /\ DOMAIN commentCounts = ClaimedAuthors
        /\ \A u \in ClaimedAuthors :
              commentCounts[u] = Cardinality(ClaimedEntries(u))

\* C6, the part the code keeps: with a filter other than the empty string
\* the counts are the claimed ones.
ExtractAgreesUnlessFilterEmpty ==
    payload.filter_type # "" => C6_CountsAsClaimed

(* the claim's own reading of a highlight condition *)

ClaimedFields == Split(payload.highlight_condition.data, ",")

ClaimedValue == Trim(ClaimedFields[3])

ClaimedThreshold ==
    ParseF64(IF EndsWith(ClaimedValue, "%")
             THEN SubSeq(ClaimedValue, 1, Len(ClaimedValue) - 1)
             ELSE ClaimedValue)

ClaimedConditionParses ==
    /\ payload.highlight_condition.some
    /\ Len(ClaimedFields) = 3
    /\ Trim(ClaimedFields[2]) \in
           {<<"<">>, <<"<", "=">>, <<">">>, <<">", "=">>, <<"=", "=">>}
    /\ ClaimedThreshold.ok

\* operator(value_to_compare, threshold), the two sides brought to the
\* common denominator
ClaimedHighlighted(r) ==
    LET candidate == GetOrZero(r.board_comments, Trim(ClaimedFields[1]))
        percent == EndsWith(ClaimedValue, "%") /\ r.total_comments > 0
        vnum == IF percent THEN candidate * 100 ELSE candidate
        vden == IF percent THEN r.total_comments ELSE 1
        th == ClaimedThreshold
        lhs == vnum * th.den
        rhs == (IF th.neg THEN 0 - th.num ELSE th.num) * vden
        operator == Trim(ClaimedFields[2])
    IN  CASE operator = <<"<">> -> lhs < rhs
          [] operator = <<"<", "=">> -> lhs <= rhs
          [] operator = <<">">> -> lhs > rhs
          [] operator = <<">", "=">> -> lhs >= rhs
          [] operator = <<"=", "=">> -> lhs = rhs

\* C7: when the highlight condition parses (3 fields, one of the five
\* operators, a number with or without a trailing %), a record of the
\* returned report is in highlightedData exactly when the operator holds
\* between its value to compare and the threshold.
C7_HighlightedIffOperatorHolds ==
    Returned /\ ClaimedConditionParses =>
        \A j \in 1..Len(ReportOf(response)) :
            LET r == ReportOf(response)[j]
            IN  (\E k \in 1..Len(response.highlighted_data) :
                    response.highlighted_data[k] = r)
                <=> ClaimedHighlighted(r)

\* C7, the part the code keeps: the same for a threshold that is not
\* negative.
HighlightAgreesUnlessNegative ==
    Returned /\ ClaimedConditionParses /\ ~ClaimedThreshold.neg =>
        C7_HighlightedIffOperatorHolds

====
